---- MODULE Spec2Model ----
(***************************************************************************)
(* spotify-json: the object codec (codec/object.hpp), the scanner          *)
(* primitives it is built on (detail/decode_helpers.hpp) and the boost     *)
(* optional wrapper (boost.hpp), as a state machine.                       *)
(*                                                                         *)
(* A byte is a one-character string; a byte range is a sequence of bytes.  *)
(* A decode context is a record whose fields position / err / offset are   *)
(* the cursor (an offset from begin, so begin = 0 and end = Len(s)) and    *)
(* the decode_exception in flight (err = NoError when none was thrown).    *)
(* Every operation is strict in a thrown exception: given a context that   *)
(* has failed it returns it unchanged, which is how the C++ unwinds.       *)
(*                                                                         *)
(* Spec: a codec is built and used to decode and encode. RegisterSpec: a   *)
(* codec of many required fields. ScanSpec: the scanner primitives called  *)
(* in any order on one decode context; FairCommaSpec: the comma separated  *)
(* driver alone, statement by statement, with a call in progress going on. *)
(***************************************************************************)
EXTENDS Integers, Sequences, FiniteSets, TLC

\* ------------------------------------------------------------------ bounds

\* Largest number held by a field of the record / written in an input.
MaxVal == 1
\* Largest number of key/value pairs of a decoded input object.
MaxPairs == 2

\* ------------------------------------------------------------------- bytes

QUOTE == "\""
BSLASH == "\\"
\* The value peek() returns at end of input ('\0'); it is no byte of an input.
NUL == "NUL"

NoError == ""

Digits == <<"0", "1", "2", "3", "4", "5", "6", "7", "8", "9">>

is_digit(ch) == \E i \in 1..10 : Digits[i] = ch

digit_value(ch) == (CHOOSE i \in 1..10 : Digits[i] = ch) - 1

is_hex_digit(ch) == is_digit(ch) \/ ch \in {"a", "b", "c", "d", "e", "f", "A", "B", "C", "D", "E", "F"}

is_whitespace(ch) == ch \in {" ", "\t", "\n", "\r"}

\* --------------------------------------------------------- decode context

failed(c) == c.err # NoError

remaining(s, c) == Len(s) - c.position

offset(c, d) == c.position + d

fail(c, error, d) == [c EXCEPT !.err = error, !.offset = offset(c, d)]

fail_if(c, condition, error, d) == IF ~failed(c) /\ condition THEN fail(c, error, d) ELSE c

require_bytes(s, c, num_required_bytes, error) == fail_if(c, remaining(s, c) < num_required_bytes, error, 0)

peek_unchecked(s, c) == s[c.position + 1]

peek(s, c) == IF remaining(s, c) # 0 THEN peek_unchecked(s, c) ELSE NUL

skip_unchecked(c, num_bytes) == IF failed(c) THEN c ELSE [c EXCEPT !.position = @ + num_bytes]

\* next_unchecked() returns a byte and moves the cursor:
\* [c |-> the context, v |-> the byte].
next_unchecked(s, c) ==
  IF failed(c) THEN [c |-> c, v |-> NUL]
  ELSE [c |-> skip_unchecked(c, 1), v |-> peek_unchecked(s, c)]

next(s, c, error) == next_unchecked(s, require_bytes(s, c, 1, error))

advance_past_reports_cursor(s, c, character) ==
  LET check(n) == fail_if(n.c, n.v # character, "Unexpected input", 0)
  IN  check(next(s, c, "Unexpected end of input"))

advance_past(s, c, character) ==
  LET check(n) == fail_if(n.c, n.v # character, "Unexpected input", -1)
  IN  check(next(s, c, "Unexpected end of input"))

advance_past_four_compares_late(s, c, characters) ==
  LET compare(r) == fail_if(skip_unchecked(r, 4), \E i \in 1..4 : s[r.position + i] # characters[i], "Unexpected input", 0)
  IN  compare(require_bytes(s, c, 4, "Unexpected end of input"))

advance_past_four(s, c, characters) ==
  LET compare(r) == fail_if(r, \E i \in 1..4 : s[r.position + i] # characters[i], "Unexpected input", 0)
  IN  skip_unchecked(compare(require_bytes(s, c, 4, "Unexpected end of input")), 4)

RECURSIVE skip_past_whitespace(_, _)
skip_past_whitespace(s, c) ==
  IF failed(c) THEN c
  ELSE IF remaining(s, c) # 0 /\ is_whitespace(peek_unchecked(s, c))
       THEN skip_past_whitespace(s, skip_unchecked(c, 1))
       ELSE c

advance_past_true(s, c) == advance_past_four(s, c, <<"t", "r", "u", "e">>)

advance_past_false(s, c) == advance_past_four(s, skip_unchecked(c, 1), <<"a", "l", "s", "e">>)

advance_past_null(s, c) == advance_past_four(s, c, <<"n", "u", "l", "l">>)

advance_past_string_escape_after_slash(s, c) ==
  LET four_hex(r) ==
        fail_if(skip_unchecked(r, 4), \E i \in 1..4 : ~is_hex_digit(s[r.position + i]),
                "\\u must be followed by 4 hex digits", 0)
      switch(n) ==
        IF failed(n.c) THEN n.c
        ELSE IF n.v \in {QUOTE, BSLASH, "/", "b", "f", "n", "r", "t"} THEN n.c
        ELSE IF n.v = "u" THEN four_hex(require_bytes(s, n.c, 4, "\\u must be followed by 4 hex digits"))
        ELSE fail(n.c, "Invalid escape character", -1)
  IN  switch(next(s, c, "Unterminated string"))

RECURSIVE advance_past_string_any_quote(_, _)
advance_past_string_any_quote(s, c) ==
  LET switch(n) ==
        IF failed(n.c) THEN n.c
        ELSE IF n.v = QUOTE THEN n.c
        ELSE advance_past_string_any_quote(s, n.c)
  IN  switch(next(s, c, "Unterminated string"))

RECURSIVE advance_past_string_loop(_, _)
advance_past_string_loop(s, c) ==
  LET switch(n) ==
        IF failed(n.c) THEN n.c
        ELSE IF n.v = QUOTE THEN n.c
        ELSE IF n.v = BSLASH
             THEN advance_past_string_loop(s, advance_past_string_escape_after_slash(s, n.c))
             ELSE advance_past_string_loop(s, n.c)
  IN  switch(next(s, c, "Unterminated string"))

advance_past_string(s, c) == advance_past_string_loop(s, advance_past(s, c, QUOTE))

\* --------------------------------------------------------- encode context

\* An encode context: [buf |-> the bytes written, err |-> the encode exception].

append(e, byte) == IF failed(e) THEN e ELSE [e EXCEPT !.buf = Append(@, byte)]

append_bytes(e, bytes) == IF failed(e) THEN e ELSE [e EXCEPT !.buf = @ \o bytes]

append_or_replace(e, old, new) ==
  IF failed(e) THEN e
  ELSE IF Len(e.buf) > 0 /\ e.buf[Len(e.buf)] = old
       THEN [e EXCEPT !.buf[Len(e.buf)] = new]
       ELSE [e EXCEPT !.buf = Append(@, new)]

encode_fail_if(e, condition, error) == IF ~failed(e) /\ condition THEN [e EXCEPT !.err = error] ELSE e

\* ------------------------------------------------------------ child codecs

\* A value of boost::optional<T>.
Nothing == [has |-> FALSE]

Just(v) == [has |-> TRUE, val |-> v]

\* The codecs of the fields: number_t and optional_t(InnerCodec).
number_t == [kind |-> "number"]

optional_t(inner_codec) == [kind |-> "optional", inner |-> inner_codec]

\* Codec::object_type(): the value-initialised object of a codec.
default_value(codec) == IF codec.kind = "optional" THEN Nothing ELSE 0

\* string_t::encode: the key in quotes, '"' and '\' escaped.
RECURSIVE escape_bytes(_)
escape_bytes(str) ==
  IF str = <<>> THEN <<>>
  ELSE (IF Head(str) \in {QUOTE, BSLASH} THEN <<BSLASH, Head(str)>> ELSE <<Head(str)>>) \o escape_bytes(Tail(str))

string_encode(e, str) == append(append_bytes(append(e, QUOTE), escape_bytes(str)), QUOTE)

\* The byte an escape sequence stands for.
unescaped(ch) ==
  CASE ch = "b" -> "BS"
    [] ch = "f" -> "FF"
    [] ch = "n" -> "\n"
    [] ch = "r" -> "\r"
    [] ch = "t" -> "\t"
    [] ch = "u" -> "U"
    [] OTHER -> ch

\* string_t::decode, past the opening quote: [c |-> context, v |-> the string].
RECURSIVE decode_string(_, _, _)
decode_string(s, c, acc) ==
  LET switch(n) ==
        IF failed(n.c) THEN [c |-> n.c, v |-> acc]
        ELSE IF n.v = QUOTE THEN [c |-> n.c, v |-> acc]
        ELSE IF n.v = BSLASH
             THEN decode_string(s, advance_past_string_escape_after_slash(s, n.c), Append(acc, unescaped(peek(s, n.c))))
             ELSE decode_string(s, n.c, Append(acc, n.v))
  IN  switch(next(s, c, "Unterminated string"))

string_decode(s, c) == decode_string(s, advance_past(s, c, QUOTE), <<>>)

\* number_t::encode: the decimal digits of a natural number.
RECURSIVE number_bytes(_)
number_bytes(n) == IF n < 10 THEN <<Digits[n + 1]>> ELSE number_bytes(n \div 10) \o <<Digits[(n % 10) + 1]>>

\* number_t::decode of a natural number: [c |-> context, v |-> the number].
RECURSIVE decode_digits(_, _, _)
decode_digits(s, c, acc) ==
  IF is_digit(peek(s, c))
  THEN decode_digits(s, skip_unchecked(c, 1), acc * 10 + digit_value(peek(s, c)))
  ELSE [c |-> c, v |-> acc]

number_decode(s, c) ==
  IF failed(c) THEN [c |-> c, v |-> 0]
  ELSE IF is_digit(peek(s, c)) THEN decode_digits(s, c, 0)
  ELSE [c |-> fail(c, "Invalid integer", 0), v |-> 0]

\* detail::should_encode(codec, value): optional_t::should_encode, true for a
\* codec that has no should_encode.
RECURSIVE should_encode(_, _)
should_encode(codec, value) ==
  IF codec.kind = "optional"
  THEN value.has /\ should_encode(codec.inner, value.val)
  ELSE TRUE

\* Codec::encode(context, value).
RECURSIVE codec_encode(_, _, _)
codec_encode(codec, e, value) ==
  LET inner_encode(g) == IF failed(g) THEN g ELSE codec_encode(codec.inner, g, value.val)
  IN  IF failed(e) THEN e
      ELSE IF codec.kind = "optional"
           THEN inner_encode(encode_fail_if(e, ~value.has, "Cannot encode uninitialized optional"))
           ELSE append_bytes(e, number_bytes(value))

\* Codec::decode(context): [c |-> context, v |-> the value].
RECURSIVE codec_decode(_, _, _)
codec_decode(codec, s, c) ==
  LET wrap(r) == [c |-> r.c, v |-> Just(r.v)]
  IN  IF codec.kind = "optional" THEN wrap(codec_decode(codec.inner, s, c)) ELSE number_decode(s, c)

\* ------------------------------------------------- fields of an object codec

\* The field's _data when it is not required (size_t's largest value).
json_size_t_max == -1

\* object_t::field and its four kinds. member is the member of the record the
\* field reads and writes ("none" for a dummy_field, which has no storage).
field(kind, required, required_field_idx, codec, member) ==
  [_data |-> IF required THEN required_field_idx ELSE json_size_t_max,
   kind |-> kind, codec |-> codec, member |-> member]

is_required(f) == f._data # json_size_t_max

required_field_idx(f) == f._data

\* field::decode(context, object): the frame c holds the object_t::decode's
\* output, which the field's accessor writes.
field_decode(f, s, c) ==
  LET set(r) ==
        IF failed(r.c) THEN r.c
        ELSE IF f.kind = "dummy_field" THEN r.c
        ELSE [r.c EXCEPT !.output = [@ EXCEPT ![f.member] = r.v]]
  IN  set(codec_decode(f.codec, s, c))

append_key_to_context(e, escaped_key) == append_bytes(e, escaped_key)

append_val_to_context(e, codec, value) == append(codec_encode(codec, e, value), ",")

field_encode_unchecked(f, e, escaped_key, object) ==
  LET value == IF f.kind = "dummy_field" THEN default_value(f.codec) ELSE object[f.member]
  IN  append_val_to_context(append_key_to_context(e, escaped_key), f.codec, value)

\* field::encode(context, escaped_key, object).
field_encode(f, e, escaped_key, object) ==
  LET value == IF f.kind = "dummy_field" THEN default_value(f.codec) ELSE object[f.member]
  IN  IF should_encode(f.codec, value)
      THEN append_val_to_context(append_key_to_context(e, escaped_key), f.codec, value)
      ELSE e

\* bitset<64>::test_and_set on the set of the bits that are set:
\* [seen |-> the bit before, bits |-> the bits after].
test_and_set(bits, idx) == [seen |-> IF idx \in bits THEN 1 ELSE 0, bits |-> bits \cup {idx}]

\* ------------------------------------------------- the comma separated driver

\* The callbacks are closures: parse is [fn |-> "skip_value"] (an element of a
\* skipped array) or [fn |-> "object_pair", KeyCodec, callback, this] (the
\* lambda of advance_past_object, with the callback it was given).
RECURSIVE skip_value(_, _), parse(_, _, _), comma_separated_rest(_, _, _, _), skip_digits(_, _)

skip_digits(s, c) ==
  IF failed(c) THEN c
  ELSE IF is_digit(peek(s, c)) THEN skip_digits(s, skip_unchecked(c, 1))
  ELSE c

\* One or more digits.
skip_integer(s, c) == skip_digits(s, fail_if(c, ~is_digit(peek(s, c)), "Unexpected input", 0))

skip_if(s, c, chars) == IF ~failed(c) /\ peek(s, c) \in chars THEN skip_unchecked(c, 1) ELSE c

advance_past_number(s, c) ==
  LET exponent(frac) ==
        IF ~failed(frac) /\ peek(s, frac) \in {"e", "E"}
        THEN skip_integer(s, skip_if(s, skip_unchecked(frac, 1), {"+", "-"}))
        ELSE frac
      fraction(int) ==
        IF ~failed(int) /\ peek(s, int) = "." THEN skip_integer(s, skip_unchecked(int, 1)) ELSE int
  IN  exponent(fraction(skip_integer(s, skip_if(s, c, {"-"}))))

\* The while loop of advance_past_comma_separated.
comma_separated_rest(s, c, outro, p) ==
  IF failed(c) THEN c
  ELSE IF peek(s, c) # outro
       THEN comma_separated_rest(s, skip_past_whitespace(s, parse(p, s, skip_past_whitespace(s, advance_past(s, c, ",")))), outro, p)
       ELSE c

advance_past_comma_separated(s, c, intro, outro, p) ==
  LET elements(c1) ==
        IF failed(c1) THEN c1
        ELSE IF peek(s, c1) # outro
             THEN comma_separated_rest(s, skip_past_whitespace(s, parse(p, s, c1)), outro, p)
             ELSE c1
  IN  skip_unchecked(elements(skip_past_whitespace(s, advance_past(s, c, intro))), 1)

advance_past_object(s, c, KeyCodec, callback, this) ==
  advance_past_comma_separated(s, c, "{", "}", [fn |-> "object_pair", KeyCodec |-> KeyCodec, callback |-> callback, this |-> this])

decode_callback_count_all(this, s, c, key) ==
  LET count(f, d) ==
        IF failed(d) THEN d
        ELSE IF is_required(f)
             THEN [d EXCEPT !.seen_required = @ \cup {required_field_idx(f)},
                            !.uniq_seen_required = @ + 1]
             ELSE d
  IN  IF key \notin DOMAIN this._fields THEN skip_value(s, c)
      ELSE count(this._fields[key], field_decode(this._fields[key], s, c))

decode_callback_unknown_fails(this, s, c, key) ==
  LET set(d, t) == [d EXCEPT !.seen_required = t.bits, !.uniq_seen_required = @ + (1 - t.seen)]
      count(f, d) ==
        IF failed(d) THEN d
        ELSE IF is_required(f)
             THEN set(d, test_and_set(d.seen_required, required_field_idx(f)))
             ELSE d
  IN  IF key \notin DOMAIN this._fields THEN fail(c, "Unknown field", 0)
      ELSE count(this._fields[key], field_decode(this._fields[key], s, c))

decode_callback_first_wins(this, s, c, key) ==
  LET set(d, t) ==
        IF failed(d) THEN d
        ELSE [d EXCEPT !.seen_required = t.bits, !.uniq_seen_required = @ + (1 - t.seen)]
      first(f, t) == set(IF t.seen = 1 THEN skip_value(s, c) ELSE field_decode(f, s, c), t)
  IN  IF key \notin DOMAIN this._fields THEN skip_value(s, c)
      ELSE IF is_required(this._fields[key])
           THEN first(this._fields[key], test_and_set(c.seen_required, required_field_idx(this._fields[key])))
           ELSE field_decode(this._fields[key], s, c)

\* The lambda of object_t::decode, called with a decoded key.
decode_callback(this, s, c, key) ==
  LET set(d, t) == [d EXCEPT !.seen_required = t.bits, !.uniq_seen_required = @ + (1 - t.seen)]
      count(f, d) ==
        IF failed(d) THEN d
        ELSE IF is_required(f)
             THEN set(d, test_and_set(d.seen_required, required_field_idx(f)))
             ELSE d
  IN  IF key \notin DOMAIN this._fields THEN skip_value(s, c)
      ELSE count(this._fields[key], field_decode(this._fields[key], s, c))

\* The lambda of advance_past_object: key, ':', value.
object_pair(p, s, c) ==
  LET callback(c1, key) ==
        IF failed(c1) THEN c1
        ELSE IF p.callback = "object_t::decode" THEN decode_callback(p.this, s, c1, key)
        ELSE skip_value(s, c1)
      value(k) == callback(skip_past_whitespace(s, advance_past(s, skip_past_whitespace(s, k.c), ":")), k.v)
  IN  IF p.KeyCodec = "string_t" THEN value(string_decode(s, c))
      ELSE value([c |-> advance_past_string(s, c), v |-> <<>>])

parse(p, s, c) ==
  IF failed(c) THEN c
  ELSE IF p.fn = "object_pair" THEN object_pair(p, s, c)
  ELSE skip_value(s, c)

skip_value(s, c) ==
  LET switch(ch) ==
        CASE ch = "[" -> advance_past_comma_separated(s, c, "[", "]", [fn |-> "skip_value"])
          [] ch = "{" -> advance_past_object(s, c, "advance_past_string", "skip_value", <<>>)
          [] ch = "t" -> advance_past_true(s, c)
          [] ch = "f" -> advance_past_false(s, c)
          [] ch = "n" -> advance_past_null(s, c)
          [] ch = QUOTE -> advance_past_string(s, c)
          [] ch = "-" \/ is_digit(ch) -> advance_past_number(s, c)
          [] OTHER -> fail(c, IF ch = NUL THEN "Unexpected end of input" ELSE "Unexpected input", 0)
  IN  IF failed(c) THEN c ELSE switch(peek(s, c))

\* ------------------------------------------------------------ object_t<T>

\* T is a record with an int member x and a boost::optional<int> member o.
\* T(): the default-constructed record.
object_type == [x |-> 0, o |-> Nothing]

\* The record the factory given to object(create) makes.
created_object == [x |-> MaxVal, o |-> Just(0)]

\* this is [_construct, _field_list, _fields, _num_required_fields].
construct(this) == IF this._construct THEN created_object ELSE object_type

escape_key(key) == append(string_encode([buf |-> <<>>, err |-> NoError], key), ":").buf

save_field_always(this, name, required, f) ==
  [this EXCEPT !._fields = [k \in DOMAIN this._fields \cup {name} |-> IF k = name THEN f ELSE this._fields[k]],
               !._field_list = Append(@, [first |-> escape_key(name), second |-> f]),
               !._num_required_fields = @ + (IF required THEN 1 ELSE 0)]

save_field_overwrite(this, name, required, f) ==
  LET was_saved == name \notin DOMAIN this._fields
      stored == [this EXCEPT !._fields = [k \in DOMAIN this._fields \cup {name} |-> IF k = name THEN f ELSE this._fields[k]]]
  IN  IF was_saved
      THEN [stored EXCEPT !._field_list = Append(@, [first |-> escape_key(name), second |-> f]),
                          !._num_required_fields = @ + (IF required THEN 1 ELSE 0)]
      ELSE stored

save_field(this, name, required, f) ==
  LET was_saved == name \notin DOMAIN this._fields
  IN  IF was_saved
      THEN [this EXCEPT !._fields = [k \in DOMAIN this._fields \cup {name} |-> IF k = name THEN f ELSE this._fields[k]],
                        !._field_list = Append(@, [first |-> escape_key(name), second |-> f]),
                        !._num_required_fields = @ + (IF required THEN 1 ELSE 0)]
      ELSE this

\* add_field(name, required, args...): args is [kind, codec, member].
add_field(this, name, required, args) ==
  save_field(this, name, required, field(args.kind, required, this._num_required_fields, args.codec, args.member))

\* The frame of object_t::decode when it returns or throws: the context and
\* the locals output, seen_required, uniq_seen_required.
object_decode(this, s, c) ==
  LET locals == [c EXCEPT !.uniq_seen_required = 0, !.seen_required = {}, !.output = construct(this)]
      is_missing_req_fields(done) == done.uniq_seen_required # this._num_required_fields
      check(done) == fail_if(done, is_missing_req_fields(done), "Missing required field(s)", 0)
  IN  check(advance_past_object(s, locals, "string_t", "object_t::decode", this))

RECURSIVE encode_fields_backwards(_, _, _, _)
encode_fields_backwards(list, i, e, value) ==
  IF i > Len(list) THEN e
  ELSE field_encode(list[i].second, encode_fields_backwards(list, i + 1, e, value), list[i].first, value)

\* The loop of object_t::encode over _field_list, from its i-th field on.
RECURSIVE encode_fields(_, _, _, _)
encode_fields(list, i, e, value) ==
  IF i > Len(list) THEN e
  ELSE encode_fields(list, i + 1, field_encode(list[i].second, e, list[i].first, value), value)

object_encode_append(this, e, value) ==
  append(encode_fields(this._field_list, 1, append(e, "{"), value), "}")

object_encode(this, e, value) ==
  append_or_replace(encode_fields(this._field_list, 1, append(e, "{"), value), ",", "}")

\* ------------------------------------------------------------ the callers

\* The keys the callers register, and a key no caller registers.
Keys == {<<"a">>, <<"b", QUOTE>>}

UnknownKey == <<"z">>

\* The accessors the callers register a key with: add_field's overloads.
Accessors ==
  {[kind |-> "member_var_field", codec |-> number_t, member |-> "x"],
   [kind |-> "member_fn_field", codec |-> optional_t(number_t), member |-> "o"],
   [kind |-> "custom_field", codec |-> optional_t(number_t), member |-> "o"],
   [kind |-> "dummy_field", codec |-> number_t, member |-> "none"]}

\* The records the callers encode.
Optionals == {Nothing} \cup {Just(n) : n \in 0..MaxVal}

Objects == [x : 0..MaxVal, o : Optionals]

\* The optional codecs called directly, and the values given to them.
OptionalCodecs == {optional_t(number_t), optional_t(optional_t(number_t))}

ValuesOf(codec) == IF codec.inner.kind = "optional" THEN {Nothing} \cup {Just(v) : v \in Optionals} ELSE Optionals

\* The value of an unknown key in an input: an object that holds a registered
\* key, whose value is an array of a string (with an escaped quote, a bracket
\* and a brace in it), a number and the literals; and (TrailingCommaValues) an
\* object and an array that end in a comma.
UnknownValues ==
  {<<"{", QUOTE, "a", QUOTE, ":", "[", QUOTE, "s", BSLASH, QUOTE, "]", "}", QUOTE, ",", "-", "1", ".", "5", "e", "+", "1", ",", " ", "n", "u", "l", "l", ",", "f", "a", "l", "s", "e", ",", "t", "r", "u", "e", "]", "}">>}

TrailingCommaValues ==
  {<<"{", QUOTE, "a", QUOTE, ":", "0", ",", "}">>,
   <<"[", "0", ",", " ", "]">>}

\* An input is an object of at most MaxPairs pairs [k |-> key, v |-> the bytes
\* of the value], written in one of the Formats; a registered key has the
\* least or the greatest number for its value.
Pairs ==
  [k : Keys, v : {number_bytes(0), number_bytes(MaxVal)}]
    \cup [k : {UnknownKey}, v : UnknownValues \cup TrailingCommaValues]

Docs == UNION {[1..n -> Pairs] : n \in 0..MaxPairs}

Formats == {"compact", "spaced", "trailing", "trailing_ws"}

pair_bytes(pair, fmt) ==
  LET key == string_encode([buf |-> <<>>, err |-> NoError], pair.k).buf
  IN  IF fmt = "spaced" THEN key \o <<" ", ":", "\t">> \o pair.v ELSE key \o <<":">> \o pair.v

RECURSIVE pairs_bytes(_, _, _)
pairs_bytes(doc, i, fmt) ==
  IF i > Len(doc) THEN <<>>
  ELSE pair_bytes(doc[i], fmt)
         \o (IF i = Len(doc) THEN <<>> ELSE IF fmt = "spaced" THEN <<"\n", ",", " ">> ELSE <<",">>)
         \o pairs_bytes(doc, i + 1, fmt)

Render(doc, fmt) ==
  CASE fmt = "compact" -> <<"{">> \o pairs_bytes(doc, 1, fmt) \o <<"}">>
    [] fmt = "spaced" -> <<"{", " ">> \o pairs_bytes(doc, 1, fmt) \o <<"\r", "}">>
    [] fmt = "trailing" -> <<"{">> \o pairs_bytes(doc, 1, fmt) \o <<",", "}">>
    [] fmt = "trailing_ws" -> <<"{">> \o pairs_bytes(doc, 1, fmt) \o <<",", " ", "}">>

\* ---------------------------------------------------------------- the state

VARIABLES
  _construct,            \* whether the codec was made with a factory
  _field_list,           \* object_t::_field_list
  _fields,               \* object_t::_fields
  _num_required_fields,  \* object_t::_num_required_fields
  first_registered,      \* history: the keys, in the order of their first registration
  op,                    \* the last call and its arguments
  input,                 \* the bytes given to the last decode
  frame,                 \* the decode context and the locals of the last decode
  ectx,                  \* the encode context of the last encode
  ret                    \* what the last should_encode returned

vars == <<_construct, _field_list, _fields, _num_required_fields, first_registered, op, input, frame, ectx, ret>>

codec_vars == <<_construct, _field_list, _fields, _num_required_fields>>

this == [_construct |-> _construct, _field_list |-> _field_list, _fields |-> _fields, _num_required_fields |-> _num_required_fields]

new_decode_context == [position |-> 0, err |-> NoError, offset |-> 0, output |-> object_type, seen_required |-> {}, uniq_seen_required |-> 0]

new_encode_context == [buf |-> <<>>, err |-> NoError]

\* object<T>(): an object codec with no fields, that default-constructs.
Init ==
  /\ _construct = FALSE
  /\ _field_list = <<>>
  /\ _fields = [k \in {} |-> 0]
  /\ _num_required_fields = 0
  /\ first_registered = <<>>
  /\ op = [name |-> "object"]
  /\ input = <<>>
  /\ frame = new_decode_context
  /\ ectx = new_encode_context
  /\ ret = FALSE

\* The calls are made one after the other: a call starts when the contexts of
\* the call before it are gone.
between_calls == op.name = "object"

Register(name, is_required_field, args) ==
  LET after == add_field(this, name, is_required_field, args)
  IN  /\ between_calls
      /\ _field_list' = after._field_list
      /\ _fields' = after._fields
      /\ _num_required_fields' = after._num_required_fields
      /\ first_registered' = IF \E i \in 1..Len(first_registered) : first_registered[i] = name
                             THEN first_registered ELSE Append(first_registered, name)
      /\ op' = [name |-> IF is_required_field THEN "required" ELSE "optional", key |-> name, args |-> args]
      /\ input' = <<>>
      /\ frame' = new_decode_context
      /\ ectx' = new_encode_context
      /\ ret' = FALSE
      /\ UNCHANGED _construct

required == \E name \in Keys, args \in Accessors : Register(name, TRUE, args)

optional == \E name \in Keys, args \in Accessors : Register(name, FALSE, args)

decode ==
  \E doc \in Docs, fmt \in Formats :
    /\ between_calls
    /\ fmt \in {"trailing", "trailing_ws"} => Len(doc) > 0
    /\ op' = [name |-> "decode", doc |-> doc, fmt |-> fmt]
    /\ input' = Render(doc, fmt)
    /\ frame' = object_decode(this, input', new_decode_context)
    /\ ectx' = new_encode_context
    /\ ret' = FALSE
    /\ UNCHANGED <<codec_vars, first_registered>>

\* encode(context, value) on a context that may hold bytes already.
encode ==
  \E value \in Objects, before \in {<<>>, <<"[">>, <<"[", "0", ",">>} :
    /\ between_calls
    /\ op' = [name |-> "encode", value |-> value, before |-> before]
    /\ ectx' = object_encode(this, [buf |-> before, err |-> NoError], value)
    /\ input' = <<>>
    /\ frame' = new_decode_context
    /\ ret' = FALSE
    /\ UNCHANGED <<codec_vars, first_registered>>

optional_encode ==
  \E codec \in OptionalCodecs :
    \E value \in ValuesOf(codec) :
      /\ between_calls
      /\ op' = [name |-> "optional_t::encode", codec |-> codec, value |-> value]
      /\ ectx' = codec_encode(codec, new_encode_context, value)
      /\ input' = <<>>
      /\ frame' = new_decode_context
      /\ ret' = FALSE
      /\ UNCHANGED <<codec_vars, first_registered>>

optional_should_encode ==
  \E codec \in OptionalCodecs :
    \E value \in ValuesOf(codec) :
      /\ between_calls
      /\ op' = [name |-> "optional_t::should_encode", codec |-> codec, value |-> value]
      /\ ret' = should_encode(codec, value)
      /\ input' = <<>>
      /\ frame' = new_decode_context
      /\ ectx' = new_encode_context
      /\ UNCHANGED <<codec_vars, first_registered>>

\* The call returns: its contexts and locals are destroyed, the codec stays.
return ==
  /\ ~between_calls
  /\ op' = [name |-> "object"]
  /\ input' = <<>>
  /\ frame' = new_decode_context
  /\ ectx' = new_encode_context
  /\ ret' = FALSE
  /\ UNCHANGED <<codec_vars, first_registered>>

Next == required \/ optional \/ decode \/ encode \/ optional_encode \/ optional_should_encode \/ return

Spec == Init /\ [][Next]_vars

\* ------------------------------------------------------------------ claims

is_registration == op.name \in {"required", "optional"}

stored_fields == {_field_list[i].second : i \in 1..Len(_field_list)}

required_positions == {i \in 1..Len(_field_list) : is_required(_field_list[i].second)}

\* C10: after any sequence of registrations, (I1) the keys of _fields are the
\* keys of _field_list, as many in both, and each key has the same descriptor
\* in both; (I2) _num_required_fields is the number of stored descriptors that
\* are required; (I3) the required descriptors have pairwise distinct indices,
\* which together are 0 .. _num_required_fields - 1.
C10_SchemaInvariants ==
  /\ {escape_key(k) : k \in DOMAIN _fields} = {_field_list[i].first : i \in 1..Len(_field_list)}
  /\ Cardinality(DOMAIN _fields) = Len(_field_list)
  /\ \A k \in DOMAIN _fields : \E i \in 1..Len(_field_list) :
       _field_list[i].first = escape_key(k) /\ _field_list[i].second = _fields[k]
  /\ _num_required_fields = Cardinality(required_positions)
  /\ _num_required_fields = Cardinality({k \in DOMAIN _fields : is_required(_fields[k])})
  /\ \A i, j \in required_positions :
       i # j => required_field_idx(_field_list[i].second) # required_field_idx(_field_list[j].second)
  /\ {required_field_idx(_field_list[i].second) : i \in required_positions} = 0..(_num_required_fields - 1)

\* A key registered twice, required and optional fields stored, the last
\* registration one of an already registered key.
C10_Witness ==
  /\ is_registration
  /\ Len(_field_list) = 2
  /\ _num_required_fields = 1
  /\ is_required(_field_list[2].second)
  /\ _fields[op.key].kind # op.args.kind

\* C7: a call of required() or optional() with a key that is registered
\* already leaves _field_list, _fields and _num_required_fields as they were,
\* so the key keeps the required flag, the index, the accessor and the codec
\* of its first registration.
C7_FirstWins ==
  [][(op'.name \in {"required", "optional"} /\ op'.key \in DOMAIN _fields)
       => (/\ _field_list' = _field_list
           /\ _fields' = _fields
           /\ _num_required_fields' = _num_required_fields
           /\ _fields'[op'.key] = _fields[op'.key])]_vars

\* A key first registered optional and then registered required, with another
\* accessor and codec: the field stored is the optional one.
C7_Witness ==
  /\ op.name = "required"
  /\ ~is_required(_fields[op.key])
  /\ _fields[op.key].kind # op.args.kind
  /\ _fields[op.key].codec # op.args.codec
  /\ _num_required_fields = 0

\* Where the bytes pat first occur in buf (the index of their first byte), 0
\* when they do not occur.
IndexOf(buf, pat) ==
  LET at == {i \in 1..(Len(buf) - Len(pat) + 1) : SubSeq(buf, i, i + Len(pat) - 1) = pat}
  IN  IF at = {} THEN 0 ELSE CHOOSE i \in at : \A j \in at : i <= j

\* The bytes the last encode appended to the context.
appended == SubSeq(ectx.buf, Len(op.before) + 1, Len(ectx.buf))

\* The value of a field in the encoded record, whether it is emitted (it is a
\* number, or an optional that holds one), and the JSON text of the value.
value_in(f, object) == IF f.kind = "dummy_field" THEN 0 ELSE object[f.member]

is_emitted(f, object) == f.codec.kind = "optional" => value_in(f, object).has

value_text(f, object) ==
  IF f.codec.kind = "optional" THEN number_bytes(value_in(f, object).val) ELSE number_bytes(value_in(f, object))

\* C5: the keys of the fields that encode emits stand in the output in the
\* order in which the keys were first registered, and no other key stands in
\* it.
C5_FieldOrder ==
  op.name = "encode" =>
    /\ \A i \in 1..Len(first_registered) :
         is_emitted(_fields[first_registered[i]], op.value)
           <=> IndexOf(appended, escape_key(first_registered[i])) > 0
    /\ \A i, j \in 1..Len(first_registered) :
         (i < j /\ is_emitted(_fields[first_registered[i]], op.value)
                /\ is_emitted(_fields[first_registered[j]], op.value))
           => IndexOf(appended, escape_key(first_registered[i])) < IndexOf(appended, escape_key(first_registered[j]))

\* Two fields emitted, the first registered optional through a getter and a
\* setter, the second required through a member pointer, after a registration
\* that was discarded.
C5_Witness ==
  /\ op.name = "encode"
  /\ Len(_field_list) = 2
  /\ ~is_required(_field_list[1].second) /\ _field_list[1].second.kind = "member_fn_field"
  /\ is_required(_field_list[2].second) /\ _field_list[2].second.kind = "member_var_field"
  /\ op.value.o.has
  /\ IndexOf(appended, escape_key(first_registered[2])) > IndexOf(appended, escape_key(first_registered[1]))

\* The pairs encode is to emit, joined by single commas.
RECURSIVE joined_pairs(_, _, _)
joined_pairs(list, object, first) ==
  IF list = <<>> THEN <<>>
  ELSE IF is_emitted(Head(list).second, object)
       THEN (IF first THEN <<>> ELSE <<",">>) \o Head(list).first \o value_text(Head(list).second, object)
              \o joined_pairs(Tail(list), object, FALSE)
       ELSE joined_pairs(Tail(list), object, first)

\* C6: encode leaves the bytes the context held, and appends '{', the emitted
\* fields (the cached key with its colon, then the value) joined by single
\* commas, and '}': "{}" when no field is emitted, no trailing comma, and
\* neither key nor value of a field whose should_encode is false.
C6_EncodeShape ==
  op.name = "encode" =>
    /\ ectx.err = NoError
    /\ SubSeq(ectx.buf, 1, Len(op.before)) = op.before
    /\ appended = <<"{">> \o joined_pairs(_field_list, op.value, TRUE) \o <<"}">>

\* An encode that emits nothing, of a codec with a field, on a context that
\* ends in a comma; and one that emits two fields.
C6_Witness ==
  /\ op.name = "encode"
  /\ Len(_field_list) > 0
  /\ op.before = <<"[", "0", ",">>
  /\ appended = <<"{", "}">>

\* C9: optional_t::should_encode is true iff the optional holds a value whose
\* should_encode is true; optional_t::encode of an empty optional fails with
\* "Cannot encode uninitialized optional"; the encode of an object never
\* fails, and omits the fields that hold an empty optional.
C9_OptionalWrapper ==
  /\ op.name = "optional_t::should_encode" =>
       ret = (op.value.has /\ (op.codec.inner.kind = "optional" => op.value.val.has))
  /\ op.name = "optional_t::encode" =>
       /\ ~op.value.has => (ectx.err = "Cannot encode uninitialized optional" /\ ectx.buf = <<>>)
       /\ (op.value.has /\ op.codec.inner.kind = "number") => (ectx.err = NoError /\ ectx.buf = number_bytes(op.value.val))
  /\ op.name = "encode" =>
       /\ ectx.err = NoError
       /\ \A i \in 1..Len(_field_list) :
            (_field_list[i].second.codec.kind = "optional" /\ ~value_in(_field_list[i].second, op.value).has)
              => IndexOf(appended, _field_list[i].first) = 0

\* An object encoded with a field that holds an empty optional.
C9_Witness ==
  /\ op.name = "encode"
  /\ \E i \in 1..Len(_field_list) :
       /\ _field_list[i].second.codec.kind = "optional"
       /\ ~op.value.o.has
       /\ IndexOf(appended, _field_list[i].first) = 0
  /\ \E i \in 1..Len(_field_list) : IndexOf(appended, _field_list[i].first) > 0

\* The members of the record that a field of the codec reads and writes.
bound_members == {f.member : f \in {g \in stored_fields : g.kind # "dummy_field"}}

\* C2: the bytes encode appends decode, with the same codec (one made without
\* a factory), to a record equal to the encoded one in every member the codec
\* has a field for.
C2_RoundTrip ==
  (op.name = "encode" /\ ectx.err = NoError /\ ~_construct) =>
    LET back == object_decode(this, appended, new_decode_context)
    IN  /\ back.err = NoError
        /\ \A m \in bound_members : back.output[m] = op.value[m]

\* An input that is a well-formed JSON object: no trailing comma in it.
well_formed(doc, fmt) ==
  /\ fmt \in {"compact", "spaced"}
  /\ \A i \in 1..Len(doc) : doc[i].v \notin TrailingCommaValues

top_level_keys(doc) == {doc[i].k : i \in 1..Len(doc)}

required_keys == {k \in DOMAIN _fields : is_required(_fields[k])}

decoded_ok == op.name = "decode" /\ frame.err = NoError

\* C1: the decode of a well-formed object succeeds iff every required key is
\* among its top-level keys, and fails with "Missing required field(s)"
\* otherwise; a required key is counted once however often it occurs.
C1_RequiredCoverage ==
  (op.name = "decode" /\ well_formed(op.doc, op.fmt)) =>
    /\ frame.err = NoError <=> required_keys \subseteq top_level_keys(op.doc)
    /\ frame.err \in {NoError, "Missing required field(s)"}
    /\ frame.uniq_seen_required = Cardinality(required_keys \cap top_level_keys(op.doc))
    /\ frame.seen_required = {required_field_idx(_fields[k]) : k \in required_keys \cap top_level_keys(op.doc)}

\* A required key that occurs twice, and the decode succeeds.
C1_Witness ==
  /\ decoded_ok
  /\ Len(op.doc) = 2
  /\ op.doc[1].k = op.doc[2].k
  /\ op.doc[1].k \in required_keys
  /\ _num_required_fields = 1
  /\ Len(_field_list) = 2

InsertAt(doc, i, pair) == SubSeq(doc, 1, i) \o <<pair>> \o SubSeq(doc, i + 1, Len(doc))

\* C3: a pair of an unregistered key and any well-formed value, put before,
\* between or after the pairs of an object that decodes, gives an object that
\* decodes to the same record, with the same required fields seen.
C3_UnknownFieldTransparency ==
  decoded_ok =>
    \A i \in 0..Len(op.doc), v \in UnknownValues :
      LET with == object_decode(this, Render(InsertAt(op.doc, i, [k |-> UnknownKey, v |-> v]), op.fmt), new_decode_context)
      IN  /\ with.err = NoError
          /\ with.output = frame.output
          /\ with.uniq_seen_required = frame.uniq_seen_required
          /\ with.seen_required = frame.seen_required

\* An object that decodes, of an unregistered key whose value is an object
\* that holds a registered key, and then a registered key.
C3_Witness ==
  /\ decoded_ok
  /\ Len(op.doc) = 2
  /\ op.doc[1].k = UnknownKey /\ Head(op.doc[1].v) = "{"
  /\ op.doc[2].k \in required_keys
  /\ frame.output # construct(this)

\* The pairs of the input whose key is registered with a field that writes
\* the member m, and the value such a pair gives the member.
writers(doc, m) == {i \in 1..Len(doc) : doc[i].k \in DOMAIN _fields /\ _fields[doc[i].k].member = m}

written(pair) ==
  LET n == CHOOSE n \in 0..MaxVal : number_bytes(n) = pair.v
  IN  IF _fields[pair.k].codec.kind = "optional" THEN Just(n) ELSE n

\* C4: an object in which registered keys occur several times decodes (when it
\* is well formed and holds every required key), and each member of the record
\* holds the value of the last pair that writes it: every occurrence
\* overwrites the member, in the order of the input.
C4_LastWins ==
  /\ (op.name = "decode" /\ well_formed(op.doc, op.fmt) /\ required_keys \subseteq top_level_keys(op.doc))
       => frame.err = NoError
  /\ decoded_ok =>
       \A m \in {"x", "o"} :
         frame.output[m] =
           IF writers(op.doc, m) = {} THEN construct(this)[m]
           ELSE written(op.doc[CHOOSE i \in writers(op.doc, m) : \A j \in writers(op.doc, m) : j <= i])

\* A required key that occurs twice with two values.
C4_Witness ==
  /\ decoded_ok
  /\ Len(op.doc) = 2
  /\ op.doc[1].k = op.doc[2].k
  /\ op.doc[1].v # op.doc[2].v
  /\ op.doc[1].k \in required_keys
  /\ _fields[op.doc[1].k].member = "x"
  /\ frame.output.x = written(op.doc[2])

\* An input with a trailing comma: before the closing brace of the object, or
\* in the object or array that is the value of an unregistered key.
has_trailing_comma(doc, fmt) ==
  \/ fmt \in {"trailing", "trailing_ws"}
  \/ \E i \in 1..Len(doc) : doc[i].v \in TrailingCommaValues

\* The last byte before the one at offset off that is no whitespace.
RECURSIVE byte_before(_, _)
byte_before(s, off) ==
  IF off = 0 THEN NUL
  ELSE IF is_whitespace(s[off]) THEN byte_before(s, off - 1)
  ELSE s[off]

\* C8: a ',' followed, after optional whitespace, by the closing '}' (']' of a
\* skipped array) makes the decode fail with "Unexpected input", at the offset
\* of that closing byte: the last byte of the input when the comma is the
\* object's own.
C8_TrailingCommaRejected ==
  (op.name = "decode" /\ has_trailing_comma(op.doc, op.fmt)) =>
    /\ frame.err = "Unexpected input"
    /\ frame.offset < Len(input)
    /\ input[frame.offset + 1] \in {"}", "]"}
    /\ byte_before(input, frame.offset) = ","
    /\ (\A i \in 1..Len(op.doc) : op.doc[i].v \notin TrailingCommaValues) => frame.offset = Len(input) - 1

\* The decode of an object of two pairs that ends ", }".
C8_Witness ==
  /\ op.name = "decode"
  /\ op.fmt = "trailing_ws"
  /\ Len(op.doc) = 2
  /\ frame.err = "Unexpected input"
  /\ frame.offset = Len(input) - 1
  /\ input[Len(input)] = "}"

\* ------------------------------------------- a codec of many required fields

\* The size of the bitset object_t::decode keeps the seen required fields in.
bitset_size == 64

\* Largest number of keys registered with one codec.
MaxFields == 65

\* The keys "00", "01", ... of a caller that registers many fields.
many_key(i) == <<Digits[(i \div 10) + 1], Digits[(i % 10) + 1]>>

\* The accessor the caller registers each of them with.
many_args == [kind |-> "member_var_field", codec |-> number_t, member |-> "x"]

\* required(name, &T::x) with a key that is new to the codec.
required_new ==
  /\ Len(_field_list) < MaxFields
  /\ Register(many_key(Len(_field_list)), TRUE, many_args)

\* optional(name, &T::x) with the key registered last.
optional_again ==
  /\ Len(_field_list) > 0
  /\ Register(many_key(Len(_field_list) - 1), FALSE, many_args)

\* decode of an object whose one key is the key registered last.
decode_last ==
  \E fmt \in {"compact", "spaced"} :
    /\ between_calls
    /\ Len(_field_list) > 0
    /\ op' = [name |-> "decode", doc |-> <<[k |-> many_key(Len(_field_list) - 1), v |-> number_bytes(MaxVal)]>>, fmt |-> fmt]
    /\ input' = Render(op'.doc, fmt)
    /\ frame' = object_decode(this, input', new_decode_context)
    /\ ectx' = new_encode_context
    /\ ret' = FALSE
    /\ UNCHANGED <<codec_vars, first_registered>>

RegisterNext == required_new \/ optional_again \/ decode_last \/ return

RegisterSpec == Init /\ [][RegisterNext]_vars

\* C11 (I5): after any sequence of registrations _num_required_fields is at
\* most 64, every required field has an index in 0..63, and so has every
\* index a decode gives to test_and_set of the 64-bit bitset.
C11_RequiredLimit ==
  /\ _num_required_fields <= bitset_size
  /\ \A f \in stored_fields : is_required(f) => required_field_idx(f) \in 0..(bitset_size - 1)
  /\ op.name = "decode" => frame.seen_required \subseteq 0..(bitset_size - 1)

\* ------------------------------------------------ the scanner, call by call

\* Largest number of bytes after the first byte of a string or list input.
MaxLen == 3

\* Largest number of bytes a caller skips in one call.
MaxSkip == 2

skip_without_check(s, c, num_bytes) == skip_unchecked(c, num_bytes)

\* skip(context, num_bytes); skip(context) is skip(context, 1).
skip(s, c, num_bytes) ==
  skip_unchecked(fail_if(c, remaining(s, c) < num_bytes, "Unexpected end of input", 0), num_bytes)

\* The sequences of at most n bytes of the set alphabet.
SeqsUpTo(alphabet, n) == UNION {[1..k -> alphabet] : k \in 0..n}

\* The inputs the scanner is called on: strings (an opening quote and bytes
\* among which are a quote, a backslash, u, a hex digit that is an escape
\* character and a byte that is neither), \u escapes of at most four bytes
\* with and without a closing quote, lists, literals cut short, and objects
\* of at most one pair.
StringInputs ==
  {<<QUOTE>> \o b : b \in SeqsUpTo({QUOTE, BSLASH, "u", "b", "q"}, MaxLen)}
    \cup {<<QUOTE, BSLASH, "u">> \o h \o t : h \in SeqsUpTo({"F", "q"}, 4), t \in {<<>>, <<QUOTE>>}}

ListInputs ==
  {<<"[">> \o b : b \in SeqsUpTo({"]", ",", "0"}, MaxLen + 1)}
    \cup {<<"[", " ", "]">>, <<"[", "0", " ", ",", "\n", "0", "]">>, <<"[", "0", ",", " ", "]">>}

LiteralInputs ==
  {SubSeq(<<"t", "r", "u", "e", "]">>, 1, n) : n \in 0..5}
    \cup {<<"t", "r", "u", "q">>, <<"n", "u", "l", "l">>, <<"n", "u", "l">>, <<"f", "a", "l", "s", "e">>, <<"[", "f", "]">>}

ObjectInputs == {Render(doc, fmt) : doc \in SeqsUpTo(Pairs, 1), fmt \in Formats}

ScanInputs == StringInputs \cup ListInputs \cup LiteralInputs \cup ObjectInputs

\* The codec the scanner's caller decodes objects with: required("a", &T::x).
scan_codec ==
  add_field([_construct |-> FALSE, _field_list |-> <<>>, _fields |-> [k \in {} |-> 0], _num_required_fields |-> 0],
            <<"a">>, TRUE, many_args)

\* A decode context on one of the inputs, and no call made yet.
ScanInit ==
  /\ _construct = scan_codec._construct
  /\ _field_list = scan_codec._field_list
  /\ _fields = scan_codec._fields
  /\ _num_required_fields = scan_codec._num_required_fields
  /\ first_registered = <<<<"a">>>>
  /\ op = [name |-> "decode_context", pc |-> "idle"]
  /\ input \in ScanInputs
  /\ frame = new_decode_context
  /\ ectx = new_encode_context
  /\ ret = NUL

idle == op.pc = "idle"

\* How a call ended: it returned, or it threw a decode_exception.
ended(c) == IF failed(c) THEN "thrown" ELSE "returned"

\* A call of a primitive that runs to its end in one step: the context after
\* it, the byte it returned, and what was called from which position.
Call(name, arg, c, v) ==
  /\ idle
  /\ frame' = c
  /\ ret' = v
  /\ op' = [name |-> name, pc |-> ended(c), from |-> frame.position, arg |-> arg]
  /\ UNCHANGED <<codec_vars, first_registered, input, ectx>>

call_peek == Call("peek", NUL, frame, peek(input, frame))

call_next ==
  LET n == next(input, frame, "Unexpected end of input")
  IN  Call("next", NUL, n.c, n.v)

call_skip == \E num_bytes \in 1..MaxSkip : Call("skip", num_bytes, skip(input, frame, num_bytes), NUL)

call_advance_past ==
  \E character \in {QUOTE, "[", ",", "t"} :
    Call("advance_past", character, advance_past(input, frame, character), NUL)

call_advance_past_four ==
  \E characters \in {<<"t", "r", "u", "e">>, <<"n", "u", "l", "l">>} :
    Call("advance_past_four", characters, advance_past_four(input, frame, characters), NUL)

call_advance_past_string == Call("advance_past_string", NUL, advance_past_string(input, frame), NUL)

call_decode == Call("decode", NUL, object_decode(this, input, frame), NUL)

\* The caller has the result, or has caught the exception: the context stays
\* where the call left it.
call_ended ==
  /\ op.pc \in {"returned", "thrown"}
  /\ op' = [name |-> "decode_context", pc |-> "idle"]
  /\ frame' = [frame EXCEPT !.err = NoError, !.offset = 0, !.output = object_type, !.seen_required = {}, !.uniq_seen_required = 0]
  /\ ret' = NUL
  /\ UNCHANGED <<codec_vars, first_registered, input, ectx>>

\* The callbacks the scanner's caller gives advance_past_comma_separated:
\* skip_value, a callback that does nothing, and one that takes a byte.
Parses == {[fn |-> "skip_value"], [fn |-> "nothing"], [fn |-> "next"]}

callers_parse(p, s, c) ==
  IF p.fn = "nothing" THEN c
  ELSE IF p.fn = "next" THEN next(s, c, "Unexpected end of input").c
  ELSE parse(p, s, c)

\* The intro and outro the caller gives.
Brackets == {[intro |-> "[", outro |-> "]"], [intro |-> "{", outro |-> "}"]}

\* advance_past_comma_separated, statement by statement. pc is the statement
\* the call is at: "parse" (a call of parse is next), "while" (the test of the
\* while loop is next), "outro" (both tests found the outro: position++ is
\* next). calls counts the calls of parse.
comma_separated_at(pc) == op.name = "advance_past_comma_separated" /\ op.pc = pc

\* advance_past(intro), skip_past_whitespace, and the test of the if.
enter_comma_separated ==
  \E p \in Parses, b \in Brackets :
    LET c1 == skip_past_whitespace(input, advance_past(input, frame, b.intro))
    IN  /\ idle
        /\ frame' = c1
        /\ op' = [name |-> "advance_past_comma_separated", from |-> frame.position, arg |-> p,
                  intro |-> b.intro, outro |-> b.outro, calls |-> 0,
                  pc |-> IF failed(c1) THEN "thrown" ELSE IF peek(input, c1) # b.outro THEN "parse" ELSE "outro"]
        /\ UNCHANGED <<codec_vars, first_registered, input, ectx, ret>>

\* parse() and skip_past_whitespace.
call_parse ==
  LET c1 == skip_past_whitespace(input, callers_parse(op.arg, input, frame))
  IN  /\ comma_separated_at("parse")
      /\ op.calls <= Len(input) + 1
      /\ frame' = c1
      /\ op' = [op EXCEPT !.calls = @ + 1, !.pc = IF failed(c1) THEN "thrown" ELSE "while"]
      /\ UNCHANGED <<codec_vars, first_registered, input, ectx, ret>>

comma_if_any(s, c) == skip_past_whitespace(s, IF peek(s, c) = "," THEN advance_past(s, c, ",") ELSE c)

\* advance_past(context, ','); skip_past_whitespace(context): the loop's first
\* two statements.
comma_and_whitespace(s, c) == skip_past_whitespace(s, advance_past(s, c, ","))

\* The test of the while loop, and advance_past(','), skip_past_whitespace.
while_comma_separated ==
  LET c1 == comma_and_whitespace(input, frame)
  IN  /\ comma_separated_at("while")
      /\ IF peek(input, frame) # op.outro
         THEN /\ frame' = c1
              /\ op' = [op EXCEPT !.pc = IF failed(c1) THEN "thrown" ELSE "parse"]
         ELSE /\ frame' = frame
              /\ op' = [op EXCEPT !.pc = "outro"]
      /\ UNCHANGED <<codec_vars, first_registered, input, ectx, ret>>

\* context.position++, and the return.
leave_comma_separated ==
  /\ comma_separated_at("outro")
  /\ frame' = skip_unchecked(frame, 1)
  /\ op' = [op EXCEPT !.pc = "returned"]
  /\ UNCHANGED <<codec_vars, first_registered, input, ectx, ret>>

ScanNext ==
  \/ call_peek \/ call_next \/ call_skip \/ call_advance_past \/ call_advance_past_four
  \/ call_advance_past_string \/ call_decode
  \/ enter_comma_separated \/ call_parse \/ while_comma_separated \/ leave_comma_separated
  \/ call_ended

ScanSpec == ScanInit /\ [][ScanNext]_vars

\* The driver alone, on the lists: a call that has started goes on.
CommaInit == ScanInit /\ input \in ListInputs

comma_separated_step == call_parse \/ while_comma_separated \/ leave_comma_separated

CommaNext == enter_comma_separated \/ comma_separated_step \/ call_ended

FairCommaSpec == CommaInit /\ [][CommaNext]_vars /\ WF_vars(comma_separated_step)

\* ---------------------------------------------------- claims on the scanner

\* What C12 says of a string whose bytes after the opening quote start at
\* s[j]: the error, and the cursor after the closing quote (no error) or the
\* offset of the offending byte (an invalid escape character).
RECURSIVE string_end(_, _)
string_end(s, j) ==
  IF j > Len(s) THEN [err |-> "Unterminated string", at |-> Len(s)]
  ELSE IF s[j] = QUOTE THEN [err |-> NoError, at |-> j]
  ELSE IF s[j] # BSLASH THEN string_end(s, j + 1)
  ELSE IF j = Len(s) THEN [err |-> "Unterminated string", at |-> Len(s)]
  ELSE IF s[j + 1] \in {QUOTE, BSLASH, "/", "b", "f", "n", "r", "t"} THEN string_end(s, j + 2)
  ELSE IF s[j + 1] # "u" THEN [err |-> "Invalid escape character", at |-> j]
  ELSE IF Len(s) - (j + 1) < 4 \/ \E i \in 2..5 : ~is_hex_digit(s[j + i])
       THEN [err |-> "\\u must be followed by 4 hex digits", at |-> j + 1]
       ELSE string_end(s, j + 6)

\* C12: advance_past_string, called at an opening quote, leaves the cursor
\* right after the first quote that is not escaped; it fails with
\* "Unterminated string" when the input ends before that quote or right after
\* a backslash, with "Invalid escape character" at the offset of the byte
\* after the backslash when that byte is none of " \ / b f n r t u, and with
\* "\u must be followed by 4 hex digits" when fewer than four bytes, or a byte
\* that is no hex digit, follow \u.
C12_AdvancePastString ==
  (op.name = "advance_past_string" /\ op.from < Len(input) /\ input[op.from + 1] = QUOTE) =>
    LET said == string_end(input, op.from + 2)
    IN  /\ frame.err = said.err
        /\ said.err = NoError => (frame.position = said.at /\ input[frame.position] = QUOTE)
        /\ said.err = "Invalid escape character" =>
             /\ frame.offset = said.at
             /\ input[frame.offset] = BSLASH
             /\ input[frame.offset + 1] \notin {QUOTE, BSLASH, "/", "b", "f", "n", "r", "t", "u"}

\* A string that holds an escaped quote, which the call went past.
C12_Witness ==
  /\ op.name = "advance_past_string"
  /\ op.from = 0
  /\ frame.err = NoError
  /\ frame.position = 4
  /\ input[2] = BSLASH /\ input[3] = QUOTE /\ input[4] = QUOTE

\* C13: whatever the input and the calls of peek, next, skip, advance_past,
\* advance_past_four, advance_past_string and advance_past_comma_separated
\* made on it, the cursor stays between begin and end and never moves back;
\* peek returns the byte at the cursor, or NUL at the end, and moves nothing;
\* the last position++ of advance_past_comma_separated runs with the outro at
\* the cursor. (peek_unchecked is s[position + 1]: a read at or past the end
\* has no value, and stops the evaluation.)
C13_CursorBounds ==
  /\ 0 <= frame.position /\ frame.position <= Len(input)
  /\ ~idle => op.from <= frame.position
  /\ op.name = "peek" =>
       /\ frame.position = op.from
       /\ ~failed(frame)
       /\ ret = IF op.from = Len(input) THEN NUL ELSE input[op.from + 1]
  /\ comma_separated_at("outro") =>
       /\ remaining(input, frame) >= 1
       /\ input[frame.position + 1] = op.outro

\* advance_past_comma_separated has returned with the cursor at the end of
\* the input, after two calls of parse.
C13_Witness ==
  /\ comma_separated_at("returned")
  /\ op.calls = 2
  /\ op.from = 0
  /\ frame.position = Len(input)

\* The offset of a failure lies between the cursor the call started at and
\* the cursor the failure left.
offset_in_call == failed(frame) => (op.from <= frame.offset /\ frame.offset <= frame.position)

\* advance_past on a byte that is not the character: the offset of that byte.
advance_past_offset ==
  (op.name = "advance_past" /\ frame.err = "Unexpected input") =>
    /\ frame.offset = frame.position - 1
    /\ frame.offset = op.from
    /\ input[frame.offset + 1] # op.arg

\* advance_past_four on four bytes that are not the literal: the offset of
\* the first of them, and the cursor has not moved.
advance_past_four_offset ==
  (op.name = "advance_past_four" /\ frame.err = "Unexpected input") =>
    /\ frame.offset = op.from
    /\ frame.position = op.from
    /\ \E i \in 1..4 : input[op.from + i] # op.arg[i]

\* "Missing required field(s)": the offset right after the closing brace.
missing_required_offset ==
  frame.err = "Missing required field(s)" =>
    /\ op.name = "decode"
    /\ frame.offset = frame.position
    /\ input[frame.offset] = "}"

\* C14 as claimed: the offsets above, and every "Unexpected end of input"
\* reports the offset of the end of the input.
C14_OffsetAccuracy ==
  /\ offset_in_call
  /\ advance_past_offset
  /\ advance_past_four_offset
  /\ missing_required_offset
  /\ frame.err = "Unexpected end of input" => frame.offset = Len(input)

\* C14, amended: the offsets above, and "Unexpected end of input" reports the
\* cursor at which too few bytes were found: the end of the input when next
\* or advance_past needs one byte, and the cursor the call started at, with
\* one to three bytes (skip(n): fewer than n) still before the end, when
\* advance_past_four or skip finds fewer bytes than it needs.
C14_OffsetAccuracyAmended ==
  /\ offset_in_call
  /\ advance_past_offset
  /\ advance_past_four_offset
  /\ missing_required_offset
  /\ frame.err = "Unexpected end of input" =>
       /\ frame.offset = frame.position
       /\ op.name \in {"next", "advance_past"} => frame.offset = Len(input)
       /\ op.name = "advance_past_four" => (frame.offset = op.from /\ remaining(input, frame) < 4)
       /\ op.name = "skip" => (frame.offset = op.from /\ remaining(input, frame) < op.arg)

\* advance_past_four found three bytes where it needs four.
C14_Witness ==
  /\ op.name = "advance_past_four"
  /\ frame.err = "Unexpected end of input"
  /\ frame.offset = op.from
  /\ remaining(input, frame) = 3

\* A call of advance_past_comma_separated that has neither returned nor thrown.
comma_separated_running == op.name = "advance_past_comma_separated" /\ op.pc \in {"parse", "while", "outro"}

====
